---- MODULE Spec2Model ----
(***************************************************************************)
(* The two-phase crawl pipeline of Scrapper__Groups.io.                    *)
(*                                                                         *)
(*   phase 1, discovery  : 000002_main_scraper.py (get_all_thread_urls,    *)
(*                         main) writes thread_urls.json                   *)
(*   phase 2, extraction : 03_main_scraper.py and its earlier variant      *)
(*                         003_main_scraper.py (main) read                 *)
(*                         thread_urls.json and write scraped_data.json    *)
(*                                                                         *)
(* One process runs at a time; `script` names the script being run.  A     *)
(* run is a sequence of steps between the points where the process can be  *)
(* observed or stopped: file operations, browser calls, the process's end. *)
(***************************************************************************)
EXTENDS Naturals, Integers, Sequences, FiniteSets, TLC

\* ------------------------------------------------------------------ bounds
\* Topic ids 1..MaxTopics exist on the forum.
MaxTopics == 3
\* Batch sizes 1..MaxBatch are tried besides the configured SAVE_EVERY.
MaxBatch == 2
\* The longest input list of the flush-cadence specification.
MaxCadenceUrls == 23
\* The forum shows at most MaxNextPages + 1 result pages.
MaxNextPages == 2
\* The result pages link to topics 1..MaxLinkTopics.
MaxLinkTopics == 2
\* A thread page of the message specification shows at most MaxMessages
\* message containers.
MaxMessages == 2
MaxTitleLen == 5
MaxRecordMessages == 1
MaxScrollLoads == 2

\* ------------------------------------------------------- program constants
SAVE_EVERY == 10
SCROLL_PATIENCE == 5

HOST == "https://groups.io"
TOPIC_PATH == "/g/44net/topic/"

ExtractScripts == {"03", "003"}
DiscoverScripts == {"000002"}

\* -------------------------------------------------------------- strings
\* A URL string is the sequence of its parts; concatenation of strings is
\* concatenation of sequences.
DigitChars == <<"0", "1", "2", "3", "4", "5", "6", "7", "8", "9">>

\* str(n)
RECURSIVE Decimal(_)
Decimal(n) ==
  IF n < 10 THEN <<DigitChars[n + 1]>>
  ELSE Decimal(n \div 10) \o <<DigitChars[(n % 10) + 1]>>

\* The href of the link to topic n, as the topics page gives it.
Href(n) == <<TOPIC_PATH>> \o Decimal(n)

\* full_url = f"https://groups.io{href}"
FullUrl(href) == <<HOST>> \o href

TopicUrl(n) == FullUrl(Href(n))

Urls == {TopicUrl(n) : n \in 1..MaxTopics}

\* ---------------------------------------------------------------- files
\* A file on disk: absent, holding a JSON document, or torn (opened for
\* writing and truncated, the document not or only partly written).
EmptyMap == [u \in {} |-> "none"]

AbsentFile == [state |-> "absent", data |-> EmptyMap]
TornFile == [state |-> "torn", data |-> EmptyMap]
JsonFile(doc) == [state |-> "ok", data |-> doc]

\* Path.exists()
Exists(file) == file.state # "absent"

Put(m, k, v) == [x \in (DOMAIN m) \cup {k} |-> IF x = k THEN v ELSE m[x]]

\* The (key, record) pairs of a mapping.
Pairs(m) == {<<k, m[k]>> : k \in DOMAIN m}

\* The (key, record) pairs a reader finds in a file.
FilePairs(file) == IF file.state = "ok" THEN Pairs(file.data) ELSE {}

\* ------------------------------------------------------ string order
\* Python compares strings code point by code point.  The parts of a URL
\* start with different characters and none is the start of another, so
\* the order of two URLs is decided part by part, each part by the code
\* point it starts with ("h", "/", or a digit).
PartCode(part) ==
  CASE part = HOST -> 104
    [] part = TOPIC_PATH -> 47
    [] OTHER -> 48 + (CHOOSE d \in 0..9 : DigitChars[d + 1] = part)

Codes(str) == [k \in DOMAIN str |-> PartCode(str[k])]

RECURSIVE CodesLess(_, _)
CodesLess(a, b) ==
  IF b = <<>> THEN FALSE
  ELSE IF a = <<>> THEN TRUE
  ELSE IF Head(a) # Head(b) THEN Head(a) < Head(b)
  ELSE CodesLess(Tail(a), Tail(b))

\* a < b for two strings
StrLess(a, b) == CodesLess(Codes(a), Codes(b))

RECURSIVE Insert(_, _)
Insert(sorted, x) ==
  IF sorted = <<>> THEN <<x>>
  ELSE IF StrLess(x, Head(sorted)) THEN <<x>> \o sorted
  ELSE <<Head(sorted)>> \o Insert(Tail(sorted), x)

\* sorted(list)
RECURSIVE Sorted(_)
Sorted(list) ==
  IF list = <<>> THEN <<>>
  ELSE Insert(Sorted(SubSeq(list, 1, Len(list) - 1)), list[Len(list)])

\* The lists in which a set can be laid out: list(seen_urls).
RECURSIVE Listings(_)
Listings(set) ==
  IF set = {} THEN {<<>>}
  ELSE UNION {{<<x>> \o l : l \in Listings(set \ {x})} : x \in set}

Range(list) == {list[k] : k \in DOMAIN list}

\* The documents discovery can have left in thread_urls.json.
UrlLists == {Sorted(l) : l \in UNION {Listings(S) : S \in SUBSET Urls}}

\* ---------------------------------------------------------- messages
\* A text is the sequence of its pieces: words, runs of blanks (" ") and
\* line breaks ("\n").
IsSpace(piece) == piece \in {" ", "\n"}

\* str.strip()
RECURSIVE LStrip(_)
LStrip(text) ==
  IF text # <<>> /\ IsSpace(Head(text)) THEN LStrip(Tail(text)) ELSE text

RECURSIVE RStrip(_)
RStrip(text) ==
  IF text # <<>> /\ IsSpace(text[Len(text)])
  THEN RStrip(SubSeq(text, 1, Len(text) - 1))
  ELSE text

Strip(text) == RStrip(LStrip(text))

\* str.splitlines(): a line ends at each line break; what follows the last
\* line break is a line if it is not empty.
RECURSIVE SplitLines(_)
SplitLines(text) ==
  IF text = <<>> THEN <<>>
  ELSE LET brk == {k \in DOMAIN text : text[k] = "\n"}
       IN IF brk = {} THEN <<text>>
          ELSE LET k == CHOOSE b \in brk : \A c \in brk : b <= c
               IN <<SubSeq(text, 1, k - 1)>>
                    \o SplitLines(SubSeq(text, k + 1, Len(text)))

\* "\n".join(lines)
RECURSIVE JoinLines(_)
JoinLines(lines) ==
  IF lines = <<>> THEN <<>>
  ELSE IF Len(lines) = 1 THEN lines[1]
  ELSE lines[1] \o <<"\n">> \o JoinLines(Tail(lines))

NonBlank(line) == Strip(line) # <<>>

\* "\n".join(line.strip() for line in body.splitlines() if line.strip())
CleanBody(text) ==
  LET kept == SelectSeq(SplitLines(text), NonBlank)
  IN JoinLines([k \in DOMAIN kept |-> Strip(kept[k])])

\* author, timestamp, body = "N/A", "N/A", "N/A"
NA == <<"N/A">>

\* What a field locator meets in a message container: no element (the read
\* raises), or an element with its text.
Missing == [present |-> FALSE, text |-> <<>>]
Element(text) == [present |-> TRUE, text |-> text]

AuthorTexts == {<<>>, <<" ", "al", " ">>}
TimestampTexts == {<<"Jan 1", " ">>}
BodyTexts == {<<" ", "hi", " ", "\n", " ", "\n", "yo", " ", "all">>}

Containers ==
  [author : {Missing} \cup {Element(t) : t \in AuthorTexts},
   timestamp : {Missing} \cup {Element(t) : t \in TimestampTexts},
   body : {Missing} \cup {Element(t) : t \in BodyTexts}]

ContainerLists == UNION {[1..n -> Containers] : n \in 0..MaxMessages}

\* try: author = await ...text_content()  except Exception: (keeps "N/A")
\* the same for timestamp (get_attribute) and body (inner_text)
ReadOr(el, sentinel) == IF el.present THEN el.text ELSE sentinel

\* author.strip() if author else "N/A"
StripOrNA(text) == IF text # <<>> THEN Strip(text) ELSE NA

\* One pass of the loop over message_elements: the appended dict.
Message(container) ==
  [author |-> StripOrNA(ReadOr(container.author, NA)),
   timestamp |-> StripOrNA(ReadOr(container.timestamp, NA)),
   body |-> IF container.body.present
            THEN CleanBody(container.body.text)
            ELSE NA]

Complete(container) ==
  container.author.present /\ container.timestamp.present
    /\ container.body.present

\* A container with a missing field is dropped.
ExtractMessages_DropPartial(message_elements) ==
  LET kept == SelectSeq(message_elements, Complete)
  IN [k \in DOMAIN kept |-> Message(kept[k])]

\* for msg_element in message_elements: ... messages.append({...})
ExtractMessages(message_elements) ==
  [k \in DOMAIN message_elements |-> Message(message_elements[k])]

\* ------------------------------------------------------- thread pages
\* A document title is a text whose pieces are words, blanks and the
\* delimiter "|"; page.title() returns it or raises.
T1 == <<"t1">>
T2 == <<"t2">>
Titles == {T1, T2}

\* title = "Title not found"
TitleNotFound == <<"Title not found">>

\* str.split('|'): the parts between the delimiters, empty parts included;
\* a text without delimiter is the only part.
RECURSIVE Split(_)
Split(text) ==
  LET bars == {k \in DOMAIN text : text[k] = "|"}
  IN IF bars = {} THEN <<text>>
     ELSE LET k == CHOOSE b \in bars : \A c \in bars : b <= c
          IN <<SubSeq(text, 1, k - 1)>>
               \o Split(SubSeq(text, k + 1, Len(text)))

\* title_parts = full_title.split('|')
\* title = title_parts[-1].strip() if len(title_parts) > 1 else full_title
ParseTitle(full_title) ==
  LET title_parts == Split(full_title)
  IN IF Len(title_parts) > 1
     THEN Strip(title_parts[Len(title_parts)])
     ELSE full_title

\* try: full_title = await page.title() ...
\* except Exception: title = "Title not found"
PageTitle(read) ==
  IF read.present THEN ParseTitle(read.text) ELSE TitleNotFound

\* What a visit of a thread URL meets: a rendered thread, a timeout of the
\* navigation or of the content-ready wait, or another navigation error.
ThreadPages ==
  [kind : {"content"}, title : {Element(t) : t \in Titles},
   containers : {<<>>}]
    \cup {[kind |-> "timeout", title |-> Missing, containers |-> <<>>],
          [kind |-> "nav_error", title |-> Missing, containers |-> <<>>]}

\* Before the visit of an iteration's thread.
NoPage == [kind |-> "none", title |-> Missing, containers |-> <<>>]

None == [ok |-> FALSE]

\* The dict is returned without its "messages" entry.
ThreadRecord_NoMessages(url, title, messages) ==
  [url |-> url, title |-> title]

\* return {"url": url, "title": title, "messages": messages}
ThreadRecord(url, title, messages) ==
  [url |-> url, title |-> title, messages |-> messages]

\* A thread whose navigation or content-ready wait failed is returned as a
\* record with the fallback title.
scrape_thread_page_NoSkip(url, pg) ==
  [ok |-> TRUE,
   rec |-> ThreadRecord(url,
                        IF pg.kind = "content"
                        THEN PageTitle(pg.title)
                        ELSE T1,
                        <<>>)]

scrape_thread_page(url, pg) ==
  IF pg.kind \in {"timeout", "nav_error"}
  THEN None
  ELSE [ok |-> TRUE,
        rec |-> ThreadRecord(url, PageTitle(pg.title),
                             ExtractMessages(pg.containers))]

\* Records an earlier run may have left in the output artifact.
PriorStores ==
  UNION {{[u \in S |-> ThreadRecord(u, f[u], <<>>)] : f \in [S -> Titles]}
           : S \in SUBSET Urls}

\* ------------------------------------------------------ topics list
GROUP_URL == <<"https://ardc.groups.io/g/44net/topics">>

\* The hrefs of the thread links a result page can show.
Hrefs == {Href(n) : n \in 1..MaxLinkTopics}

\* What one next-page strategy meets on a page: a visible element whose
\* click succeeds, no visible element, a probe (is_visible) that raises
\* TimeoutError or another error, or a visible element whose click raises
\* TimeoutError or another error.
ProbeOutcomes ==
  {"visible", "hidden", "timeout", "error", "click_timeout", "click_error"}

\* locators_to_try holds four locators.
Strategies == 1..4

NoControl == [k \in Strategies |-> "hidden"]

\* The next-page control of the forum's markup, as the strategies meet it.
NextControls ==
  {[k \in Strategies |-> IF k = 1 THEN "visible" ELSE "hidden"],
   [k \in Strategies |-> CASE k = 1 -> "error"
                           [] k = 3 -> "visible"
                           [] OTHER -> "hidden"]}

\* A forum: result pages 1..K+1, each showing a set of thread links; every
\* page but the last carries the next-page control.
Sites ==
  [pages : UNION {[1..(K + 1) -> SUBSET Hrefs] : K \in 0..MaxNextPages},
   control : NextControls]

NoSite == [pages |-> <<>>, control |-> NoControl]

\* The resolved thread links of result page k, and of pages 1..n.
PageUrls(forum, k) == {FullUrl(href) : href \in forum.pages[k]}
VisitedUrls(forum, n) == UNION {PageUrls(forum, k) : k \in 1..n}

\* The probes of the strategies on result page k of a forum.
PageProbes(forum, k) ==
  IF k < Len(forum.pages) THEN forum.control ELSE NoControl

\* The first strategy whose element is visible and is clicked without an
\* error, or 0: a probe or a click that raises is passed over (continue).
ClickedStrategy(probes) ==
  IF \E k \in Strategies : probes[k] = "visible"
  THEN CHOOSE k \in Strategies :
         /\ probes[k] = "visible"
         /\ \A j \in Strategies : j < k => probes[j] # "visible"
  ELSE 0

find_and_click_next_page(probes) == ClickedStrategy(probes) # 0

NoList == [set |-> FALSE, urls |-> {}]
NoResult == [set |-> FALSE, urls |-> {}]

VARIABLES
  script,           \* the script being run
  auth_file,        \* auth_state.json
  urls_file,        \* thread_urls.json
  data_file,        \* scraped_data.json
  save_every,       \* the batch size the run is configured with
  pc,               \* the run's position
  exit,             \* running | returned | raised | killed
  browser,          \* none | open | closed
  scraped_data,     \* main: scraped_data
  urls_to_process,  \* main: urls_to_process
  i,                \* main: the loop index
  exc,              \* the error the main loop was left by, or "none"
  goto_log,         \* history: the URLs navigated to, in order
  flush_log,        \* history: for each completed write, the number of
                    \*          loop iterations done when it was made
  completed,        \* history: the pairs extracted in this run
  flushed,          \* history: the pairs this run's completed writes have
                    \*          put on disk
  urls_file0,       \* history: thread_urls.json when the run started
  data_file0,       \* history: scraped_data.json when the run started
  site,             \* the forum's topics list: its result pages
  cur,              \* the result page the browser shows (0: none)
  seen_urls,        \* get_all_thread_urls: seen_urls
  current_page_urls,\* get_all_thread_urls: current_page_urls
  links,            \* get_all_thread_urls: the links still to be read
  page_count,       \* get_all_thread_urls: page_count
  thread_urls,      \* main: thread_urls, once get_all_thread_urls returned
  transitions,      \* history: the clicks on a next-page control
  prev_result,      \* history: the URL set the previous discovery returned
  met,              \* history: what the visit of this iteration's thread met
  timed_out,        \* history: the wait of discovery that timed out
  locators,         \* find_and_click_next_page: what each locator meets
  li,               \* find_and_click_next_page: the loop index, from 1
  clicks,           \* history: the locators whose element click() was called on
  ret,              \* find_and_click_next_page: none | True | False
  returned,         \* get_all_thread_urls: the list it returned
  patience_counter, \* get_all_thread_urls of 002: patience_counter
  rounds            \* history: for each scroll round, whether it added a URL

\* The state of one call of find_and_click_next_page, the list a call of
\* get_all_thread_urls returned, and the scroll loop of 002.
fvars == <<locators, li, clicks, ret, returned, patience_counter, rounds>>

dvars == <<site, cur, seen_urls, current_page_urls, links, page_count,
           thread_urls, transitions, prev_result, timed_out, fvars>>

vars == <<script, auth_file, urls_file, data_file, save_every, pc, exit,
          browser, scraped_data, urls_to_process, i, exc, goto_log,
          flush_log, completed, flushed, urls_file0, data_file0, site, cur,
          seen_urls, current_page_urls, links, page_count, thread_urls,
          transitions, prev_result, met, timed_out, locators, li, clicks,
          ret, returned, patience_counter, rounds>>

\* ------------------------------------------------- extraction: main
\* The check of the session artifact is left out.
AuthMissing_Unchecked == FALSE

\* if not AUTH_FILE.exists()
AuthMissing == ~Exists(auth_file)

\* The check of the input artifact is left out.
UrlsMissing_Unchecked == FALSE

\* if not URLS_FILE.exists()
UrlsMissing == ~Exists(urls_file)

\* The store on disk is not read: the run starts from scraped_data = {}.
LoadStore_Fresh(file) == EmptyMap

\* scraped_data = {}; if DATA_FILE.exists(): scraped_data = json.load(f)
LoadStore(file) == IF Exists(file) THEN file.data ELSE EmptyMap

\* The filter is left out: urls_to_process = urls_to_scrape
WorkList_Unfiltered(urls_to_scrape, store) == urls_to_scrape

\* already_scraped_urls = set(scraped_data.keys())
\* urls_to_process = [url for url in urls_to_scrape
\*                    if url not in already_scraped_urls]
WorkList(urls_to_scrape, store) ==
  LET already_scraped_urls == DOMAIN store
      Remaining(url) == url \notin already_scraped_urls
  IN SelectSeq(urls_to_scrape, Remaining)

\* The save condition of the loop, idx being the 0-based loop index.
\*   03 : if (i + 1) % SAVE_EVERY == 0 or i == total_urls - 1
\*   003: if (i + 1) % SAVE_EVERY == 0
\* Only the last index saves.
ShouldSave_LastOnly(s, idx, total, n) == idx = total - 1

ShouldSave(s, idx, total, n) ==
  IF s = "03"
  THEN (idx + 1) % n = 0 \/ idx = total - 1
  ELSE (idx + 1) % n = 0

\* with open(DATA_FILE, "w") as f: the file is truncated when it is opened
OpenForWrite(file) == TornFile

\* json.dump(scraped_data, f, indent=2), and the file is closed
Dump(store) == JsonFile(store)

Running(scripts) == script \in scripts /\ exit = "running"

Ended(how) ==
  /\ exit' = how
  /\ pc' = "end"

MainNoAuth ==
  /\ Running(ExtractScripts) /\ pc = "start"
  /\ AuthMissing
  /\ Ended("returned")
  /\ UNCHANGED dvars
  /\ UNCHANGED <<met, script, auth_file, urls_file, data_file, save_every, browser,
                 scraped_data, urls_to_process, i, exc, goto_log, flush_log,
                 completed, flushed, urls_file0, data_file0>>

MainNoUrls ==
  /\ Running(ExtractScripts) /\ pc = "start"
  /\ ~AuthMissing
  /\ UrlsMissing
  /\ Ended("returned")
  /\ UNCHANGED dvars
  /\ UNCHANGED <<met, script, auth_file, urls_file, data_file, save_every, browser,
                 scraped_data, urls_to_process, i, exc, goto_log, flush_log,
                 completed, flushed, urls_file0, data_file0>>

\* json.load raises on a file that holds no JSON document (open raises on a
\* file that is not there); nothing in main catches it.
MainLoadFails ==
  /\ Running(ExtractScripts) /\ pc = "start"
  /\ ~AuthMissing
  /\ ~UrlsMissing
  /\ urls_file.state # "ok" \/ data_file.state = "torn"
  /\ Ended("raised")
  /\ UNCHANGED dvars
  /\ UNCHANGED <<met, script, auth_file, urls_file, data_file, save_every, browser,
                 scraped_data, urls_to_process, i, exc, goto_log, flush_log,
                 completed, flushed, urls_file0, data_file0>>

\* The early return is left out: the browser is launched, the loop runs
\* over the empty list and the finally clause writes the file.
MainNothingToDo_NoReturn ==
  /\ Running(ExtractScripts) /\ pc = "start"
  /\ ~AuthMissing
  /\ ~UrlsMissing
  /\ urls_file.state = "ok" /\ data_file.state # "torn"
  /\ WorkList(urls_file.data, LoadStore(data_file)) = <<>>
  /\ scraped_data' = LoadStore(data_file)
  /\ browser' = "open"
  /\ pc' = "finally"
  /\ UNCHANGED dvars
  /\ UNCHANGED <<met, script, auth_file, urls_file, data_file, save_every,
                 exit, urls_to_process, i, exc, goto_log, flush_log,
                 completed, flushed, urls_file0, data_file0>>

MainNothingToDo ==
  /\ Running(ExtractScripts) /\ pc = "start"
  /\ ~AuthMissing
  /\ ~UrlsMissing
  /\ urls_file.state = "ok" /\ data_file.state # "torn"
  /\ WorkList(urls_file.data, LoadStore(data_file)) = <<>>
  /\ scraped_data' = LoadStore(data_file)
  /\ Ended("returned")
  /\ UNCHANGED dvars
  /\ UNCHANGED <<met, script, auth_file, urls_file, data_file, save_every, browser,
                 urls_to_process, i, exc, goto_log, flush_log,
                 completed, flushed, urls_file0, data_file0>>

\* The browser is launched with the session and the loop is entered.
MainBegin ==
  /\ Running(ExtractScripts) /\ pc = "start"
  /\ ~AuthMissing
  /\ ~UrlsMissing
  /\ urls_file.state = "ok" /\ data_file.state # "torn"
  /\ WorkList(urls_file.data, LoadStore(data_file)) # <<>>
  /\ scraped_data' = LoadStore(data_file)
  /\ urls_to_process' = WorkList(urls_file.data, LoadStore(data_file))
  /\ i' = 0
  /\ browser' = "open"
  /\ pc' = "scrape"
  /\ UNCHANGED dvars
  /\ UNCHANGED <<met, script, auth_file, urls_file, data_file, save_every, exit,
                 exc, goto_log, flush_log, completed, flushed, urls_file0,
                 data_file0>>

\* thread_data = await scrape_thread_page(page, url)
\* if thread_data: scraped_data[url] = thread_data
Scrape(pages) ==
  /\ Running(ExtractScripts) /\ pc = "scrape"
  /\ \E pg \in pages :
       LET url == urls_to_process[i + 1]
           thread_data == scrape_thread_page(url, pg)
       IN /\ met' = pg
          /\ goto_log' = Append(goto_log, url)
          /\ scraped_data' = IF thread_data.ok
                             THEN Put(scraped_data, url, thread_data.rec)
                             ELSE scraped_data
          /\ completed' = IF thread_data.ok
                          THEN completed \cup {<<url, thread_data.rec>>}
                          ELSE completed
  /\ pc' = "save_check"
  /\ UNCHANGED dvars
  /\ UNCHANGED <<script, auth_file, urls_file, data_file, save_every, exit,
                 browser, urls_to_process, i, exc, flush_log, flushed,
                 urls_file0, data_file0>>

ScrapeThread == Scrape(ThreadPages)

\* Every thread is rendered: no timeout, no navigation error.
ScrapeRendered ==
  Scrape({[kind |-> "content", title |-> Element(T1), containers |-> <<>>]})

\* An error leaves the loop while a thread is being scraped: one that
\* scrape_thread_page does not catch (page.locator(...).all() raising) is
\* an Exception; the cancellation of the task by an interrupt is not.
LoopRaises ==
  /\ Running(ExtractScripts) /\ pc = "scrape"
  /\ \E e \in {"Exception", "Cancelled"} : exc' = e
  /\ goto_log' = Append(goto_log, urls_to_process[i + 1])
  /\ pc' = "finally"
  /\ UNCHANGED dvars
  /\ UNCHANGED <<met, script, auth_file, urls_file, data_file, save_every, exit,
                 browser, scraped_data, urls_to_process, i, flush_log,
                 completed, flushed, urls_file0, data_file0>>

\* The end of one iteration of `for i, url in enumerate(urls_to_process)`.
\* The loop stays on a thread whose visit failed.
NextIteration_Retry ==
  /\ i' = IF met.kind \in {"timeout", "nav_error"} THEN i ELSE i + 1
  /\ met' = NoPage
  /\ pc' = IF i' < Len(urls_to_process) THEN "scrape" ELSE "finally"

NextIteration ==
  /\ i' = i + 1
  /\ met' = NoPage
  /\ pc' = IF i + 1 < Len(urls_to_process) THEN "scrape" ELSE "finally"

NoSave ==
  /\ Running(ExtractScripts) /\ pc = "save_check"
  /\ ~ShouldSave(script, i, Len(urls_to_process), save_every)
  /\ NextIteration
  /\ UNCHANGED dvars
  /\ UNCHANGED <<script, auth_file, urls_file, data_file, save_every, exit,
                 browser, scraped_data, urls_to_process, exc, goto_log,
                 flush_log, completed, flushed, urls_file0, data_file0>>

SaveOpen ==
  /\ Running(ExtractScripts) /\ pc = "save_check"
  /\ ShouldSave(script, i, Len(urls_to_process), save_every)
  /\ data_file' = OpenForWrite(data_file)
  /\ pc' = "save_write"
  /\ UNCHANGED dvars
  /\ UNCHANGED <<met, script, auth_file, urls_file, save_every, exit, browser,
                 scraped_data, urls_to_process, i, exc, goto_log, flush_log,
                 completed, flushed, urls_file0, data_file0>>

SaveDump ==
  /\ Running(ExtractScripts) /\ pc = "save_write"
  /\ data_file' = Dump(scraped_data)
  /\ flush_log' = Append(flush_log, i + 1)
  /\ flushed' = flushed \cup Pairs(scraped_data)
  /\ NextIteration
  /\ UNCHANGED dvars
  /\ UNCHANGED <<script, auth_file, urls_file, save_every, exit, browser,
                 scraped_data, urls_to_process, exc, goto_log, completed,
                 urls_file0, data_file0>>

\* finally: with open(DATA_FILE, "w") as f: ...
FinallyOpen ==
  /\ Running(ExtractScripts) /\ pc = "finally"
  /\ data_file' = OpenForWrite(data_file)
  /\ pc' = "finally_write"
  /\ UNCHANGED dvars
  /\ UNCHANGED <<met, script, auth_file, urls_file, save_every, exit, browser,
                 scraped_data, urls_to_process, i, exc, goto_log, flush_log,
                 completed, flushed, urls_file0, data_file0>>

\* The finally block writes the store as it was loaded.
FinalData_Stale == Dump(LoadStore(data_file0))

\* The file the finally block leaves.
FinalData == Dump(scraped_data)

\* How main ends after the finally block: `except Exception` has consumed
\* an Exception; a cancellation goes on to end the process.
ExitAfterFinally == IF exc = "Cancelled" THEN "raised" ELSE "returned"

\* finally: json.dump(scraped_data, f, indent=2); await browser.close()
FinallyDump ==
  /\ Running(ExtractScripts) /\ pc = "finally_write"
  /\ data_file' = FinalData
  /\ flush_log' = Append(flush_log, i)
  /\ flushed' = flushed \cup FilePairs(FinalData)
  /\ browser' = "closed"
  /\ Ended(ExitAfterFinally)
  /\ UNCHANGED dvars
  /\ UNCHANGED <<met, script, auth_file, urls_file, save_every, scraped_data,
                 urls_to_process, i, exc, goto_log, completed, urls_file0,
                 data_file0>>

\* ------------------------------------------------- discovery: main
DUnchangedExtraction == UNCHANGED <<scraped_data, urls_to_process, i, flush_log,
                                    completed, flushed, data_file, met, fvars>>

DMainNoAuth ==
  /\ Running(DiscoverScripts) /\ pc = "start"
  /\ AuthMissing
  /\ Ended("returned")
  /\ DUnchangedExtraction
  /\ UNCHANGED dvars
  /\ UNCHANGED <<script, auth_file, urls_file, save_every, browser, exc,
                 goto_log, urls_file0, data_file0>>

\* The browser is launched; await page.goto(GROUP_URL, ...)
DGoto ==
  /\ Running(DiscoverScripts) /\ pc = "start"
  /\ ~AuthMissing
  /\ browser' = "open"
  /\ goto_log' = Append(goto_log, GROUP_URL)
  /\ cur' = 1
  /\ pc' = "first_wait"
  /\ DUnchangedExtraction
  /\ UNCHANGED <<script, auth_file, urls_file, save_every, exit, exc,
                 urls_file0, data_file0, site, seen_urls, current_page_urls,
                 links, page_count, thread_urls, transitions, prev_result,
                 timed_out>>

\* await page.wait_for_selector(thread_link_selector, timeout=30000)
\* finds a thread link; seen_urls = set(); page_count = 1
DFirstWaitOk ==
  /\ Running(DiscoverScripts) /\ pc = "first_wait"
  /\ site.pages[cur] # {}
  /\ seen_urls' = {}
  /\ page_count' = 1
  /\ pc' = "collect"
  /\ DUnchangedExtraction
  /\ UNCHANGED <<script, auth_file, urls_file, save_every, exit, browser, exc,
                 goto_log, urls_file0, data_file0, site, cur,
                 current_page_urls, links, thread_urls, transitions,
                 prev_result,
                 timed_out>>

\* The timeout of the first wait is passed over and the loop is entered.
DFirstWaitTimeout_Continue ==
  /\ Running(DiscoverScripts) /\ pc = "first_wait"
  /\ timed_out' = "first_wait"
  /\ seen_urls' = {}
  /\ page_count' = 1
  /\ pc' = "collect"
  /\ DUnchangedExtraction
  /\ UNCHANGED <<script, auth_file, urls_file, save_every, exit, browser, exc,
                 goto_log, urls_file0, data_file0, site, cur,
                 current_page_urls, links, thread_urls, transitions,
                 prev_result>>

\* No thread link appears within the wait: TimeoutError leaves
\* get_all_thread_urls and is caught by main's except TimeoutError.
DFirstWaitTimeout ==
  /\ Running(DiscoverScripts) /\ pc = "first_wait"
  /\ exc' = "TimeoutError"
  /\ pc' = "close"
  /\ DUnchangedExtraction
  /\ timed_out' = "first_wait"
  /\ UNCHANGED <<site, cur, seen_urls, current_page_urls, links, page_count,
                 thread_urls, transitions, prev_result>>
  /\ UNCHANGED <<script, auth_file, urls_file, save_every, exit, browser,
                 goto_log, urls_file0, data_file0>>

\* links = await page.locator(thread_link_selector).all()
\* current_page_urls = set()
DCollect ==
  /\ Running(DiscoverScripts) /\ pc = "collect"
  /\ links' = site.pages[cur]
  /\ current_page_urls' = {}
  /\ pc' = "links"
  /\ DUnchangedExtraction
  /\ UNCHANGED <<script, auth_file, urls_file, save_every, exit, browser, exc,
                 goto_log, urls_file0, data_file0, site, cur, seen_urls,
                 page_count, thread_urls, transitions, prev_result,
                 timed_out>>

\* current_page_urls = {full_url} in place of current_page_urls.add(...)
AddUrl_Assign(page_urls, full_url) == {full_url}

\* current_page_urls.add(full_url)
AddUrl(page_urls, full_url) == page_urls \cup {full_url}

\* for link in links: href = ...; current_page_urls.add(full_url)
\* The links are met in the order the page lists them, which is any order.
DLink ==
  /\ Running(DiscoverScripts) /\ pc = "links"
  /\ \E href \in links :
       /\ current_page_urls' = AddUrl(current_page_urls, FullUrl(href))
       /\ links' = links \ {href}
  /\ DUnchangedExtraction
  /\ UNCHANGED <<script, auth_file, urls_file, save_every, pc, exit, browser,
                 exc, goto_log, urls_file0, data_file0, site, cur, seen_urls,
                 page_count, thread_urls, transitions, prev_result,
                 timed_out>>

\* seen_urls = current_page_urls in place of seen_urls.update(...)
Accumulate_Replace(seen, page_urls) == page_urls

\* seen_urls.update(current_page_urls)
Accumulate(seen, page_urls) == seen \cup page_urls

DUpdate ==
  /\ Running(DiscoverScripts) /\ pc = "links"
  /\ links = {}
  /\ seen_urls' = Accumulate(seen_urls, current_page_urls)
  /\ pc' = "advance"
  /\ DUnchangedExtraction
  /\ UNCHANGED <<script, auth_file, urls_file, save_every, exit, browser, exc,
                 goto_log, urls_file0, data_file0, site, cur,
                 current_page_urls, links, page_count, thread_urls,
                 transitions, prev_result,
                 timed_out>>

\* The loop also ends on a page without links (if not links: break).
Advances_StopOnEmpty(forum, k) ==
  forum.pages[k] # {} /\ find_and_click_next_page(PageProbes(forum, k))

\* if await find_and_click_next_page(page): ... else: break
Advances(forum, k) == find_and_click_next_page(PageProbes(forum, k))

\* if await find_and_click_next_page(page): the click loads the next page
DAdvance ==
  /\ Running(DiscoverScripts) /\ pc = "advance"
  /\ Advances(site, cur)
  /\ cur' = cur + 1
  /\ transitions' = transitions + 1
  /\ pc' = "load_wait"
  /\ DUnchangedExtraction
  /\ UNCHANGED <<script, auth_file, urls_file, save_every, exit, browser, exc,
                 goto_log, urls_file0, data_file0, site, seen_urls,
                 current_page_urls, links, page_count, thread_urls,
                 prev_result,
                 timed_out>>

\* await page.wait_for_load_state("domcontentloaded"); time.sleep(...)
\* page_count += 1
DLoadOk ==
  /\ Running(DiscoverScripts) /\ pc = "load_wait"
  /\ page_count' = page_count + 1
  /\ pc' = "collect"
  /\ DUnchangedExtraction
  /\ UNCHANGED <<script, auth_file, urls_file, save_every, exit, browser, exc,
                 goto_log, urls_file0, data_file0, site, cur, seen_urls,
                 current_page_urls, links, thread_urls, transitions,
                 prev_result,
                 timed_out>>

\* wait_for_load_state times out: TimeoutError leaves get_all_thread_urls,
\* whose locals go with its frame.
DLoadTimeout ==
  /\ Running(DiscoverScripts) /\ pc = "load_wait"
  /\ exc' = "TimeoutError"
  /\ pc' = "close"
  /\ timed_out' = "load_wait"
  /\ seen_urls' = {}
  /\ current_page_urls' = {}
  /\ page_count' = 0
  /\ DUnchangedExtraction
  /\ UNCHANGED <<script, auth_file, urls_file, save_every, exit, browser,
                 goto_log, urls_file0, data_file0, site, cur, links,
                 thread_urls, transitions, prev_result>>

\* else: break, and return list(seen_urls): a list of the set's elements in
\* an order that is settled where the list is read.
DLastPage ==
  /\ Running(DiscoverScripts) /\ pc = "advance"
  /\ ~Advances(site, cur)
  /\ thread_urls' = [set |-> TRUE, urls |-> seen_urls]
  /\ pc' = "save"
  /\ DUnchangedExtraction
  /\ UNCHANGED <<script, auth_file, urls_file, save_every, exit, browser, exc,
                 goto_log, urls_file0, data_file0, site, cur, seen_urls,
                 current_page_urls, links, page_count, transitions,
                 prev_result,
                 timed_out>>

\* with open(DATA_FILE, "w") as f:
DSaveOpen ==
  /\ Running(DiscoverScripts) /\ pc = "save"
  /\ urls_file' = OpenForWrite(urls_file)
  /\ pc' = "save_write"
  /\ DUnchangedExtraction
  /\ UNCHANGED dvars
  /\ UNCHANGED <<script, auth_file, save_every, exit, browser, exc, goto_log,
                 urls_file0, data_file0>>

\* json.dump(sorted(thread_urls), f, indent=2)
DSaveDump ==
  /\ Running(DiscoverScripts) /\ pc = "save_write"
  /\ \E list \in Listings(thread_urls.urls) : urls_file' = JsonFile(Sorted(list))
  /\ pc' = "close"
  /\ DUnchangedExtraction
  /\ UNCHANGED dvars
  /\ UNCHANGED <<script, auth_file, save_every, exit, browser, exc, goto_log,
                 urls_file0, data_file0>>

\* finally: await browser.close(); main returns
DClose ==
  /\ Running(DiscoverScripts) /\ pc = "close"
  /\ browser' = "closed"
  /\ Ended("returned")
  /\ DUnchangedExtraction
  /\ UNCHANGED dvars
  /\ UNCHANGED <<script, auth_file, urls_file, save_every, exc, goto_log,
                 urls_file0, data_file0>>

DiscoverNext ==
  \/ DMainNoAuth
  \/ DGoto
  \/ DFirstWaitOk
  \/ DFirstWaitTimeout
  \/ DCollect
  \/ DLink
  \/ DUpdate
  \/ DAdvance
  \/ DLoadOk
  \/ DLoadTimeout
  \/ DLastPage
  \/ DSaveOpen
  \/ DSaveDump
  \/ DClose

\* The process is terminated abruptly (SIGKILL, power loss): no handler
\* runs, what the process held in memory is gone, the files stay as they are.
Kill ==
  /\ exit = "running"
  /\ Ended("killed")
  /\ scraped_data' = EmptyMap
  /\ urls_to_process' = <<>>
  /\ i' = 0
  /\ exc' = "none"
  /\ met' = NoPage
  /\ cur' = 0
  /\ seen_urls' = {}
  /\ current_page_urls' = {}
  /\ links' = {}
  /\ page_count' = 0
  /\ thread_urls' = NoList
  /\ UNCHANGED <<script, auth_file, urls_file, data_file, save_every, browser,
                 goto_log, flush_log, completed, flushed, urls_file0,
                 data_file0, site, transitions, prev_result,
                 timed_out, fvars>>

\* The same script is invoked again after the process has ended.
Restart ==
  /\ exit # "running"
  /\ exit' = "running"
  /\ pc' = "start"
  /\ browser' = "none"
  /\ scraped_data' = EmptyMap
  /\ urls_to_process' = <<>>
  /\ i' = 0
  /\ exc' = "none"
  /\ met' = NoPage
  /\ timed_out' = "none"
  /\ goto_log' = <<>>
  /\ flush_log' = <<>>
  /\ completed' = {}
  /\ flushed' = {}
  /\ urls_file0' = urls_file
  /\ data_file0' = data_file
  /\ cur' = 0
  /\ seen_urls' = {}
  /\ current_page_urls' = {}
  /\ links' = {}
  /\ page_count' = 0
  /\ thread_urls' = NoList
  /\ transitions' = 0
  /\ prev_result' = IF thread_urls.set
                    THEN [set |-> TRUE, urls |-> thread_urls.urls]
                    ELSE prev_result
  /\ UNCHANGED <<script, auth_file, urls_file, data_file, save_every, site,
                 fvars>>

ExtractNext ==
  \/ MainNoAuth
  \/ MainNoUrls
  \/ MainLoadFails
  \/ MainNothingToDo
  \/ MainBegin
  \/ ScrapeThread
  \/ LoopRaises
  \/ NoSave
  \/ SaveOpen
  \/ SaveDump
  \/ FinallyOpen
  \/ FinallyDump

\* ------------------------------------------------------ specification
\* No run has touched the state yet.
FreshRun ==
  /\ exit = "running"
  /\ browser = "none"
  /\ scraped_data = EmptyMap
  /\ urls_to_process = <<>>
  /\ i = 0
  /\ exc = "none"
  /\ goto_log = <<>>
  /\ flush_log = <<>>
  /\ completed = {}
  /\ flushed = {}
  /\ urls_file0 = urls_file
  /\ data_file0 = data_file
  /\ cur = 0
  /\ seen_urls = {}
  /\ current_page_urls = {}
  /\ links = {}
  /\ page_count = 0
  /\ thread_urls = NoList
  /\ transitions = 0
  /\ prev_result = NoResult
  /\ met = NoPage
  /\ timed_out = "none"

StartOfRun ==
  /\ pc = "start"
  /\ FreshRun
  /\ locators = <<>>
  /\ li = 0
  /\ clicks = <<>>
  /\ ret = "none"
  /\ returned = <<>>
  /\ patience_counter = 0
  /\ rounds = <<>>

\* An extraction script is invoked: any session, any input list discovery
\* can have written, any store an earlier run can have left.
InitExtract ==
  /\ script \in ExtractScripts
  /\ auth_file \in {AbsentFile, JsonFile(EmptyMap)}
  /\ urls_file \in {AbsentFile} \cup {JsonFile(l) : l \in UrlLists}
  /\ data_file \in {AbsentFile} \cup {JsonFile(st) : st \in PriorStores}
  /\ save_every \in (1..MaxBatch) \cup {SAVE_EVERY}
  /\ site = NoSite
  /\ StartOfRun

\* The discovery script is invoked against any forum. With a session the
\* first run starts without thread_urls.json and later runs find the one
\* the run before them wrote; without a session it may be there or not.
InitDiscover ==
  /\ script \in DiscoverScripts
  /\ auth_file \in {AbsentFile, JsonFile(EmptyMap)}
  /\ urls_file \in IF Exists(auth_file)
                    THEN {AbsentFile}
                    ELSE {AbsentFile, JsonFile(<<TopicUrl(1)>>)}
  /\ data_file = AbsentFile
  /\ save_every = SAVE_EVERY
  /\ site \in Sites
  /\ StartOfRun

Init == InitExtract \/ InitDiscover

Next ==
  \/ ExtractNext
  \/ DiscoverNext
  \/ Kill
  \/ Restart

Spec == Init /\ [][Next]_vars

\* ------------------------------------------- flush cadence, SAVE_EVERY
\* An extraction run with the configured batch size over a first-run input
\* list of up to MaxCadenceUrls URLs, every thread extracted, no error, no
\* interruption.
InitCadence ==
  /\ script \in ExtractScripts
  /\ auth_file = JsonFile(EmptyMap)
  /\ \E m \in 0..MaxCadenceUrls :
       urls_file = JsonFile([k \in 1..m |-> TopicUrl(k)])
  /\ data_file = AbsentFile
  /\ save_every = SAVE_EVERY
  /\ site = NoSite
  /\ StartOfRun

NextCadence ==
  \/ MainNothingToDo
  \/ MainBegin
  \/ ScrapeRendered
  \/ NoSave
  \/ SaveOpen
  \/ SaveDump
  \/ FinallyOpen
  \/ FinallyDump

SpecCadence == InitCadence /\ [][NextCadence]_vars

\* ------------------------- find_and_click_next_page, locator by locator
\* The scripts that page with find_and_click_next_page.
AdvanceScripts == {"000002", "00002"}

\* locators_to_try: four locators in 000002, five in 00002.
LocatorsToTry(s) == IF s = "00002" THEN 1..5 ELSE Strategies

\* await locator.is_visible(timeout=...): its value, or the error it raises
IsVisible(outcome) ==
  CASE outcome \in {"visible", "click_timeout", "click_error"} -> "True"
    [] outcome = "hidden" -> "False"
    [] outcome = "timeout" -> "TimeoutError"
    [] outcome = "error" -> "Error"

\* await locator.click(): done, or the error it raises
Click(outcome) ==
  CASE outcome = "visible" -> "ok"
    [] outcome = "click_timeout" -> "TimeoutError"
    [] OTHER -> "Error"

\* The element is clicked whatever is_visible says.
ShouldClick_Always(visible) == TRUE

\* if await locator.is_visible(timeout=...):
ShouldClick(visible) == visible = "True"

\* 000002: except (TimeoutError, Exception): continue
\* 00002 : except TimeoutError: continue
Absorbs(s, error) == IF s = "00002" THEN error = "TimeoutError" ELSE TRUE

\* What the rest of the program does not see of a call.
AUnchanged ==
  UNCHANGED <<script, auth_file, urls_file, data_file, save_every, exit,
              browser, scraped_data, urls_to_process, i, exc, goto_log,
              flush_log, completed, flushed, urls_file0, data_file0, site,
              cur, seen_urls, current_page_urls, links, page_count,
              thread_urls, transitions, prev_result, met, timed_out,
              locators, returned, patience_counter, rounds>>

Probing ==
  /\ script \in AdvanceScripts
  /\ pc = "probe"
  /\ li \in DOMAIN locators

\* continue: the loop goes on with the next locator
Continue ==
  /\ li' = li + 1
  /\ pc' = "probe"

\* is_visible is true: the click comes next
AIsVisibleTrue ==
  /\ Probing
  /\ IsVisible(locators[li]) \in {"True", "False"}
  /\ ShouldClick(IsVisible(locators[li]))
  /\ pc' = "click"
  /\ UNCHANGED <<li, clicks, ret>>
  /\ AUnchanged

\* is_visible is false: the next locator
AIsVisibleFalse ==
  /\ Probing
  /\ IsVisible(locators[li]) \in {"True", "False"}
  /\ ~ShouldClick(IsVisible(locators[li]))
  /\ Continue
  /\ UNCHANGED <<clicks, ret>>
  /\ AUnchanged

\* is_visible raises: the except clause takes the error, or it leaves the
\* function
AIsVisibleRaises ==
  /\ Probing
  /\ IsVisible(locators[li]) \in {"TimeoutError", "Error"}
  /\ IF Absorbs(script, IsVisible(locators[li]))
     THEN Continue
     ELSE pc' = "probe_raised" /\ UNCHANGED li
  /\ UNCHANGED <<clicks, ret>>
  /\ AUnchanged

\* await locator.click(); return True
AClickOk ==
  /\ script \in AdvanceScripts
  /\ pc = "click"
  /\ Click(locators[li]) = "ok"
  /\ clicks' = Append(clicks, li)
  /\ ret' = "True"
  /\ pc' = "returned"
  /\ UNCHANGED li
  /\ AUnchanged

\* click raises: the except clause takes the error, or it leaves the
\* function
AClickRaises ==
  /\ script \in AdvanceScripts
  /\ pc = "click"
  /\ Click(locators[li]) # "ok"
  /\ clicks' = Append(clicks, li)
  /\ IF Absorbs(script, Click(locators[li]))
     THEN Continue
     ELSE pc' = "click_raised" /\ UNCHANGED li
  /\ UNCHANGED ret
  /\ AUnchanged

\* The list is used up: return False
AReturnFalse ==
  /\ script \in AdvanceScripts
  /\ pc = "probe"
  /\ li = Len(locators) + 1
  /\ ret' = "False"
  /\ pc' = "returned"
  /\ UNCHANGED <<li, clicks>>
  /\ AUnchanged

\* One call of find_and_click_next_page on a page where the locators meet
\* any combination of outcomes.
InitAdvance ==
  /\ script \in AdvanceScripts
  /\ auth_file = JsonFile(EmptyMap)
  /\ urls_file = AbsentFile
  /\ data_file = AbsentFile
  /\ save_every = SAVE_EVERY
  /\ site = NoSite
  /\ FreshRun
  /\ pc = "probe"
  /\ locators \in [LocatorsToTry(script) -> ProbeOutcomes]
  /\ li = 1
  /\ clicks = <<>>
  /\ ret = "none"
  /\ returned = <<>>
  /\ patience_counter = 0
  /\ rounds = <<>>

NextAdvance ==
  \/ AIsVisibleTrue
  \/ AIsVisibleFalse
  \/ AIsVisibleRaises
  \/ AClickOk
  \/ AClickRaises
  \/ AReturnFalse

SpecAdvance == InitAdvance /\ [][NextAdvance]_vars

\* ------------------------------------------------------- message pages
\* An extraction run over one thread whose page shows any list of message
\* containers, each with any of its three fields missing.
MessagePages ==
  {[kind |-> "content", title |-> Element(T1), containers |-> c] :
     c \in ContainerLists}

ScrapeMessages == Scrape(MessagePages)

InitMessages ==
  /\ script \in ExtractScripts
  /\ auth_file = JsonFile(EmptyMap)
  /\ urls_file = JsonFile(<<TopicUrl(1)>>)
  /\ data_file = AbsentFile
  /\ save_every = SAVE_EVERY
  /\ site = NoSite
  /\ StartOfRun

NextMessages ==
  \/ MainBegin
  \/ ScrapeMessages
  \/ NoSave
  \/ SaveOpen
  \/ SaveDump
  \/ FinallyOpen
  \/ FinallyDump

SpecMessages == InitMessages /\ [][NextMessages]_vars

\* --------------------------------------------------------- title pages
\* An extraction run of 03 over one thread whose page has any document
\* title: the channel, the delimiter, blanks and subject words in any
\* arrangement, or a title that cannot be read.
CHANNEL == "44net@ardc.groups.io"
TitlePieces == {CHANNEL, "|", " ", "a", "b"}
DocTitles == UNION {[1..n -> TitlePieces] : n \in 0..MaxTitleLen}

TitlePages ==
  {[kind |-> "content", title |-> t, containers |-> <<>>] :
     t \in {Missing} \cup {Element(d) : d \in DocTitles}}

ScrapeTitle == Scrape(TitlePages)

InitTitle ==
  /\ script = "03"
  /\ auth_file = JsonFile(EmptyMap)
  /\ urls_file = JsonFile(<<TopicUrl(1)>>)
  /\ data_file = AbsentFile
  /\ save_every = SAVE_EVERY
  /\ site = NoSite
  /\ StartOfRun

\* With one URL the index of the first iteration is the last one, so 03
\* writes after it.
NextTitle ==
  \/ MainBegin
  \/ ScrapeTitle
  \/ SaveOpen
  \/ SaveDump
  \/ FinallyOpen
  \/ FinallyDump

SpecTitle == InitTitle /\ [][NextTitle]_vars

\* ------------------------------------------------------ record pages
\* An extraction run over a list of two threads, with or without the
\* record of the first in the store of an earlier run; a visit meets a page
\* with a list of message containers, a timeout or a navigation error.
RecordPages ==
  {[kind |-> "content", title |-> Element(T1), containers |-> c] :
     c \in UNION {[1..n -> Containers] : n \in 0..MaxRecordMessages}}
    \cup {[kind |-> "timeout", title |-> Missing, containers |-> <<>>],
          [kind |-> "nav_error", title |-> Missing, containers |-> <<>>]}

ScrapeRecord == Scrape(RecordPages)

InitRecords ==
  /\ script \in ExtractScripts
  /\ auth_file = JsonFile(EmptyMap)
  /\ urls_file = JsonFile(<<TopicUrl(1), TopicUrl(2)>>)
  /\ data_file \in {AbsentFile}
                     \cup {JsonFile(st) : st \in {pr \in PriorStores :
                                          DOMAIN pr \subseteq {TopicUrl(1)}}}
  /\ save_every = SAVE_EVERY
  /\ site = NoSite
  /\ StartOfRun

NextRecords ==
  \/ MainBegin
  \/ ScrapeRecord
  \/ NoSave
  \/ SaveOpen
  \/ SaveDump
  \/ FinallyOpen
  \/ FinallyDump

SpecRecords == InitRecords /\ [][NextRecords]_vars

\* ------------------------------ the list of URLs, returned and written
\* The scripts that return list(seen_urls) and write it to thread_urls.json.
ListingScripts == {"000002", "00002", "0002"}

\* 000002, 00002: json.dump(sorted(thread_urls), f, indent=2)
\* 0002         : json.dump(thread_urls, f, indent=2)
Written(s, list) == IF s = "0002" THEN list ELSE Sorted(list)

LUnchanged ==
  UNCHANGED <<script, auth_file, data_file, save_every, exit, browser,
              scraped_data, urls_to_process, i, exc, goto_log, flush_log,
              completed, flushed, urls_file0, data_file0, site, cur,
              seen_urls, current_page_urls, links, page_count, transitions,
              prev_result, met, timed_out, locators, li, clicks, ret,
              patience_counter, rounds>>

\* return list(seen_urls): the elements of the set in the order the set
\* iterates them, which is any order; thread_urls = the list
LReturn ==
  /\ script \in ListingScripts /\ pc = "return"
  /\ returned' \in Listings(seen_urls)
  /\ thread_urls' = [set |-> TRUE, urls |-> seen_urls]
  /\ pc' = "save"
  /\ UNCHANGED urls_file
  /\ LUnchanged

\* with open("thread_urls.json", "w") as f:
LSaveOpen ==
  /\ script \in ListingScripts /\ pc = "save"
  /\ urls_file' = OpenForWrite(urls_file)
  /\ pc' = "save_write"
  /\ UNCHANGED <<returned, thread_urls>>
  /\ LUnchanged

\* json.dump(...)
LSaveDump ==
  /\ script \in ListingScripts /\ pc = "save_write"
  /\ urls_file' = JsonFile(Written(script, returned))
  /\ pc' = "close"
  /\ UNCHANGED <<returned, thread_urls>>
  /\ LUnchanged

\* The loop of get_all_thread_urls has ended with any set of URLs.
InitListing ==
  /\ script \in ListingScripts
  /\ auth_file = JsonFile(EmptyMap)
  /\ urls_file = AbsentFile
  /\ data_file = AbsentFile
  /\ save_every = SAVE_EVERY
  /\ site = NoSite
  /\ exit = "running"
  /\ browser = "open"
  /\ scraped_data = EmptyMap
  /\ urls_to_process = <<>>
  /\ i = 0
  /\ exc = "none"
  /\ goto_log = <<GROUP_URL>>
  /\ flush_log = <<>>
  /\ completed = {}
  /\ flushed = {}
  /\ urls_file0 = urls_file
  /\ data_file0 = data_file
  /\ cur = 1
  /\ seen_urls \in SUBSET Urls
  /\ current_page_urls = {}
  /\ links = {}
  /\ page_count = 1
  /\ thread_urls = NoList
  /\ transitions = 0
  /\ prev_result = NoResult
  /\ met = NoPage
  /\ timed_out = "none"
  /\ pc = "return"
  /\ locators = <<>>
  /\ li = 0
  /\ clicks = <<>>
  /\ ret = "none"
  /\ returned = <<>>
  /\ patience_counter = 0
  /\ rounds = <<>>

NextListing ==
  \/ LReturn
  \/ LSaveOpen
  \/ LSaveDump

SpecListing == InitListing /\ [][NextListing]_vars

\* ------------------------------------------------------- link hrefs
\* Discovery over a forum of one result page whose thread links carry
\* hrefs of both forms the selector a.subject[href*="/g/44net/topic/"]
\* matches: the path alone, or the absolute URL.
AbsHref(n) == <<HOST>> \o Href(n)
AnyHrefs == Hrefs \cup {AbsHref(n) : n \in 1..MaxLinkTopics}

ResolveSites ==
  [pages : [1..1 -> SUBSET AnyHrefs], control : {NoControl}]

InitResolve ==
  /\ script \in DiscoverScripts
  /\ auth_file = JsonFile(EmptyMap)
  /\ urls_file = AbsentFile
  /\ data_file = AbsentFile
  /\ save_every = SAVE_EVERY
  /\ site \in ResolveSites
  /\ StartOfRun

NextResolve ==
  \/ DGoto
  \/ DFirstWaitOk
  \/ DFirstWaitTimeout
  \/ DCollect
  \/ DLink
  \/ DUpdate
  \/ DLastPage
  \/ DSaveOpen
  \/ DSaveDump
  \/ DClose

SpecResolve == InitResolve /\ [][NextResolve]_vars

\* ------------------------------------------------------------ scrolling
\* get_all_thread_urls of 002, from its loop on.  The topics page loads its
\* thread links in batches: site.pages[k] is the k-th batch and the page
\* shows batches 1..cur.  A scroll to the bottom brings the next batch, or
\* nothing within SCROLL_DELAY.
ScrollScripts == {"002"}

ScrollSites ==
  [pages : UNION {[1..(K + 1) -> SUBSET Hrefs] : K \in 0..MaxScrollLoads},
   control : {NoControl}]

\* links = await page.locator(thread_link_selector).all(), resolved
Shown(forum, n) == VisitedUrls(forum, n)

\* patience_counter += 1 in both branches
PatienceAfter_NoReset(patience, found_new) == patience + 1

\* if len(seen_urls) > initial_url_count: patience_counter = 0
\* else: patience_counter += 1
PatienceAfter(patience, found_new) == IF found_new THEN 0 ELSE patience + 1

SUnchanged ==
  UNCHANGED <<script, auth_file, urls_file, data_file, save_every, exit,
              browser, scraped_data, urls_to_process, i, goto_log,
              flush_log, completed, flushed, urls_file0, data_file0, site,
              current_page_urls, links, page_count, thread_urls,
              transitions, prev_result, met, timed_out, locators, li,
              clicks, ret>>

\* while patience_counter < SCROLL_PATIENCE: the links shown are read into
\* seen_urls and the patience counter is reset or incremented.
SRound ==
  /\ Running(ScrollScripts) /\ pc = "round"
  /\ patience_counter < SCROLL_PATIENCE
  /\ LET initial_url_count == Cardinality(seen_urls)
         seen == seen_urls \cup Shown(site, cur)
         found_new == Cardinality(seen) > initial_url_count
     IN /\ seen_urls' = seen
        /\ patience_counter' = PatienceAfter(patience_counter, found_new)
        /\ rounds' = Append(rounds, Shown(site, cur) \ seen_urls # {})
  /\ pc' = "scroll"
  /\ SUnchanged
  /\ UNCHANGED <<cur, exc, returned>>

\* await page.evaluate("window.scrollTo(...)"); time.sleep(SCROLL_DELAY):
\* the next batch is there when the next round reads the links.
SScrollLoads ==
  /\ Running(ScrollScripts) /\ pc = "scroll"
  /\ cur < Len(site.pages)
  /\ cur' = cur + 1
  /\ pc' = "round"
  /\ SUnchanged
  /\ UNCHANGED <<seen_urls, exc, returned, patience_counter, rounds>>

\* The scroll brings nothing in time, or there is nothing more to load.
SScrollNothing ==
  /\ Running(ScrollScripts) /\ pc = "scroll"
  /\ pc' = "round"
  /\ SUnchanged
  /\ UNCHANGED <<cur, seen_urls, exc, returned, patience_counter, rounds>>

\* page.evaluate raises: the error leaves get_all_thread_urls and is caught
\* by main's except Exception.
SScrollRaises ==
  /\ Running(ScrollScripts) /\ pc = "scroll"
  /\ exc' = "Exception"
  /\ pc' = "close"
  /\ SUnchanged
  /\ UNCHANGED <<cur, seen_urls, returned, patience_counter, rounds>>

\* The loop condition is false: return list(seen_urls)
SLoopEnd ==
  /\ Running(ScrollScripts) /\ pc = "round"
  /\ ~(patience_counter < SCROLL_PATIENCE)
  /\ returned' \in Listings(seen_urls)
  /\ pc' = "returned"
  /\ SUnchanged
  /\ UNCHANGED <<cur, seen_urls, exc, patience_counter, rounds>>

InitScroll ==
  /\ script \in ScrollScripts
  /\ auth_file = JsonFile(EmptyMap)
  /\ urls_file = AbsentFile
  /\ data_file = AbsentFile
  /\ save_every = SAVE_EVERY
  /\ site \in ScrollSites
  /\ exit = "running"
  /\ browser = "open"
  /\ scraped_data = EmptyMap
  /\ urls_to_process = <<>>
  /\ i = 0
  /\ exc = "none"
  /\ goto_log = <<GROUP_URL>>
  /\ flush_log = <<>>
  /\ completed = {}
  /\ flushed = {}
  /\ urls_file0 = urls_file
  /\ data_file0 = data_file
  /\ cur = 1
  /\ seen_urls = {}
  /\ current_page_urls = {}
  /\ links = {}
  /\ page_count = 0
  /\ thread_urls = NoList
  /\ transitions = 0
  /\ prev_result = NoResult
  /\ met = NoPage
  /\ timed_out = "none"
  /\ pc = "round"
  /\ locators = <<>>
  /\ li = 0
  /\ clicks = <<>>
  /\ ret = "none"
  /\ returned = <<>>
  /\ patience_counter = 0
  /\ rounds = <<>>

NextScroll ==
  \/ SRound
  \/ SScrollLoads
  \/ SScrollNothing
  \/ SScrollRaises
  \/ SLoopEnd

SpecScroll == InitScroll /\ [][NextScroll]_vars

\* ================================================================ claims
\* The input list and the store the run started from.
InputUrls == IF urls_file0.state = "ok" THEN Range(urls_file0.data) ELSE {}
LoadedKeys == IF data_file0.state = "ok" THEN DOMAIN data_file0.data ELSE {}

\* The run got past its precondition checks and its loads, and was neither
\* killed nor left by an error.
CompletedExtraction ==
  /\ script \in ExtractScripts
  /\ pc = "end" /\ exit = "returned" /\ exc = "none"
  /\ Exists(auth_file) /\ urls_file0.state = "ok"

\* C1: the URLs an extraction run navigates to are never keys of the store
\* it loaded (a missing store file is the empty store) and are always input
\* URLs; a run that completes has navigated to exactly the input URLs that
\* are not keys of the loaded store.
C1_ResumeWorkSet ==
  script \in ExtractScripts =>
    /\ Range(goto_log) \cap LoadedKeys = {}
    /\ Range(goto_log) \subseteq InputUrls
    /\ CompletedExtraction => Range(goto_log) = InputUrls \ LoadedKeys

C1_Witness ==
  /\ CompletedExtraction
  /\ Len(goto_log) >= 1
  /\ InputUrls \cap LoadedKeys # {}
  /\ LoadedKeys \ InputUrls # {}

\* C2: after an extraction run that was not killed, the store on disk is
\* the union of the prior store and the records extracted in this run, and
\* every key of the prior store maps to the record it mapped to before.
C2_NoOverwriteOnResume ==
  (script \in ExtractScripts /\ pc = "end" /\ exit \in {"returned", "raised"}) =>
    /\ FilePairs(data_file) = FilePairs(data_file0) \cup completed
    /\ \A k \in LoadedKeys :
         /\ data_file.state = "ok"
         /\ k \in DOMAIN data_file.data
         /\ data_file.data[k] = data_file0.data[k]

C2_Witness ==
  /\ script \in ExtractScripts /\ pc = "end" /\ exit = "returned"
  /\ completed # {}
  /\ InputUrls \cap LoadedKeys # {}
  /\ \E k \in LoadedKeys, p \in completed : data_file0.data[k].title # p[2].title

\* C3: a record that a flush of this run has written is in the output
\* artifact, unchanged, after the process was terminated abruptly at any
\* step (the instance of the claim for the end of a killed run).
C3_FlushedRecordsDurable ==
  (script \in ExtractScripts /\ exit = "killed") =>
    flushed \subseteq FilePairs(data_file)

\* C4: an abrupt termination at any point loses at most save_every of the
\* records extracted in this run (the claim says fewer than save_every;
\* it implies this bound).
C4_BoundedLoss ==
  (script \in ExtractScripts /\ exit = "killed") =>
    Cardinality(completed \ FilePairs(data_file)) <= save_every

\* C5: with batch size 10 and 23 remaining URLs, all extracted without
\* interruption or error, the output artifact is written exactly 3 times:
\* after the 10th, the 20th and the 23rd record.
C5_FlushCount23 ==
  (/\ script \in ExtractScripts
   /\ pc = "end" /\ exit = "returned"
   /\ save_every = 10
   /\ Len(urls_to_process) = 23)
    => flush_log = <<10, 20, 23>>

\* C6: whenever the extraction loop has been left, by completion or by an
\* error raised inside it, the output artifact has been written afterwards:
\* when the run ends it holds the accumulated store, with every record
\* completed before the exit.
C6_FlushOnLoopExit ==
  (/\ script \in ExtractScripts
   /\ pc = "end" /\ exit \in {"returned", "raised"}
   /\ browser # "none")
    => /\ flush_log # <<>>
       /\ data_file = JsonFile(scraped_data)
       /\ completed \subseteq FilePairs(data_file)

C6_Witness ==
  /\ script \in ExtractScripts
  /\ pc = "end" /\ exit = "returned"
  /\ exc = "Exception"
  /\ completed # {}
  /\ Len(flush_log) = 1

\* C7: with the session artifact absent, a discovery run and an extraction
\* run navigate nowhere, launch no browser, leave the intermediate and the
\* output artifact as they were, and end by returning.
C7_MissingSession ==
  ~Exists(auth_file) =>
    /\ goto_log = <<>>
    /\ transitions = 0
    /\ browser = "none"
    /\ urls_file = urls_file0
    /\ data_file = data_file0
    /\ exit \in {"running", "returned", "killed"}
    /\ pc \in {"start", "end"}

C7_Witness ==
  /\ ~Exists(auth_file)
  /\ script \in DiscoverScripts
  /\ pc = "end" /\ exit = "returned"
  /\ Len(site.pages) > 1

\* C8: with the session artifact present and the input-URL artifact absent,
\* the extraction run navigates nowhere, launches no browser, leaves the
\* output artifact as it was, and ends by returning.
C8_MissingInput ==
  (script \in ExtractScripts /\ Exists(auth_file) /\ ~Exists(urls_file)) =>
    /\ goto_log = <<>>
    /\ browser = "none"
    /\ data_file = data_file0
    /\ exit \in {"running", "returned", "killed"}
    /\ pc \in {"start", "end"}

C8_Witness ==
  /\ script \in ExtractScripts
  /\ Exists(auth_file) /\ ~Exists(urls_file)
  /\ pc = "end" /\ exit = "returned"
  /\ data_file.state = "ok"

\* The K of a forum: the resolver succeeds on pages 1..K, fails on page K+1.
ResolverK(forum) ==
  CHOOSE k \in 0..(Len(forum.pages) - 1) :
    /\ \A j \in 1..k : find_and_click_next_page(PageProbes(forum, j))
    /\ ~find_and_click_next_page(PageProbes(forum, k + 1))

C10_IdempotentDiscovery ==
  (script \in DiscoverScripts /\ thread_urls.set /\ prev_result.set) =>
    thread_urls.urls = prev_result.urls

C10_Witness ==
  /\ script \in DiscoverScripts
  /\ thread_urls.set /\ prev_result.set
  /\ Cardinality(thread_urls.urls) >= 2
  /\ \E k \in 1..Len(site.pages) : Cardinality(site.pages[k]) >= 2

\* The locators whose candidate is visible, and those among them whose
\* click succeeds.
VisibleCandidates == {k \in DOMAIN locators : IsVisible(locators[k]) = "True"}
Clickable == {k \in DOMAIN locators : locators[k] = "visible"}

C12_ProbeContained ==
  script \in AdvanceScripts => pc # "probe_raised"

\* The URLs this run visited without a record: extract returned null for
\* them, or an error left the loop during their visit.
CompletedKeys == {p[1] : p \in completed}
SkippedUrls == Range(goto_log) \ CompletedKeys

\* C13: when the navigation or the content-ready wait of a thread fails or
\* times out, extract returns null, the URL is not in the store, and the
\* run is at the flush decision of that iteration, from where it goes on to
\* the next URL; when the run has ended without being killed, the work list
\* a run computes from the artifacts as they are then holds every URL this
\* run skipped.
C13_PerThreadRecovery ==
  script \in ExtractScripts =>
    /\ met.kind \in {"timeout", "nav_error"} =>
         /\ scrape_thread_page(urls_to_process[i + 1], met) = None
         /\ urls_to_process[i + 1] \notin DOMAIN scraped_data
         /\ urls_to_process[i + 1] \in SkippedUrls
         /\ exit = "running"
         /\ pc \in {"save_check", "save_write"}
    /\ (pc = "end" /\ exit = "returned" /\ browser # "none") =>
         /\ data_file.state = "ok"
         /\ SkippedUrls \cap DOMAIN data_file.data = {}
         /\ SkippedUrls \subseteq
              Range(WorkList(urls_file.data, LoadStore(data_file)))

\* A run that skipped a thread, went on to extract the next one, and ended.
C13_Witness ==
  /\ script \in ExtractScripts
  /\ pc = "end" /\ exit = "returned" /\ exc = "none"
  /\ \E k \in 1..(Len(goto_log) - 1) :
       /\ goto_log[k] \in SkippedUrls
       /\ goto_log[k + 1] \in CompletedKeys

\* The words of a text, in order.
Words(text) == SelectSeq(text, LAMBDA piece : ~IsSpace(piece))
Trimmed(text) ==
  text # <<>> /\ ~IsSpace(text[1]) /\ ~IsSpace(text[Len(text)])

\* A field holds what was read of its element: the words of the element's
\* text, in order, with no blank or line break at either end.
HoldsValue(value, el) == Words(value) = Words(el.text) /\ Trimmed(value)

C15_TimeoutsRecoverable ==
  /\ (script \in DiscoverScripts /\ timed_out = "load_wait"
      /\ exit = "running") =>
       /\ pc \notin {"close", "end"}
       /\ {FullUrl(h) : h \in UNION {site.pages[k] : k \in 1..(cur - 1)}}
            \subseteq seen_urls
  /\ (script \in ExtractScripts /\ met.kind = "timeout") =>
       /\ exit = "running"
       /\ pc \in {"save_check", "save_write"}

\* C16: when the first wait for a thread link timed out, discovery has made
\* no page transition, has navigated only to the start page, has collected
\* no link and returned no list, and thread_urls.json is as it was when the
\* run started; the run only closes the browser and ends.
C16_FirstPageFatal ==
  (script \in DiscoverScripts /\ timed_out = "first_wait") =>
    /\ transitions = 0
    /\ goto_log = <<GROUP_URL>>
    /\ seen_urls = {} /\ current_page_urls = {}
    /\ ~thread_urls.set
    /\ urls_file = urls_file0
    /\ pc \in {"close", "end"}

\* The first wait timed out in a run that found the list of an earlier run
\* on disk, against a forum of several pages.
C16_Witness ==
  /\ script \in DiscoverScripts /\ timed_out = "first_wait"
  /\ pc = "end" /\ exit = "returned"
  /\ urls_file.state = "ok" /\ urls_file.data # <<>>
  /\ Len(site.pages) > 1

\* C17: when discovery has ended by an error after it visited pages, the
\* URLs of the pages visited before the error are in thread_urls.json.
C17_CheckpointOnError ==
  (script \in DiscoverScripts /\ pc = "end" /\ exit = "returned"
   /\ timed_out = "load_wait") =>
    /\ urls_file.state = "ok"
    /\ {FullUrl(h) : h \in UNION {site.pages[k] : k \in 1..(cur - 1)}}
         \subseteq Range(urls_file.data)

\* C18: an extraction run whose loop was left by an unexpected error ends,
\* after the final flush, in the failed exit state.
C18_FailurePropagates ==
  (script \in ExtractScripts /\ pc = "end" /\ exc = "Exception"
   /\ exit # "killed") =>
    /\ flush_log # <<>>
    /\ exit = "raised"

\* C19 as stated: a periodic flush (one before the last URL of the work
\* list) is made exactly when the number of entries completed in this run
\* has reached a multiple of the batch size.
C19_FlushEveryNCompleted ==
  script \in ExtractScripts =>
    /\ (pc = "save_write" /\ i + 1 < Len(urls_to_process)) =>
         /\ completed # {}
         /\ Cardinality(completed) % save_every = 0
    /\ (pc = "scrape" /\ i >= 1 /\ urls_to_process[i] \in CompletedKeys
        /\ Cardinality(completed) % save_every = 0) =>
         /\ flush_log # <<>>
         /\ flush_log[Len(flush_log)] = i

\* C19 amended: a periodic flush is made exactly when the number of URLs of
\* the work list processed in this run, extracted or skipped, has reached a
\* multiple of the batch size (03 also writes after the last URL).
C19_FlushEveryNProcessed ==
  script \in ExtractScripts =>
    /\ pc = "save_write" =>
         \/ (i + 1) % save_every = 0
         \/ script = "03" /\ i + 1 = Len(urls_to_process)
    /\ \A k \in 1..i : k % save_every = 0 => k \in Range(flush_log)
    /\ \A n \in DOMAIN flush_log :
         \/ flush_log[n] % save_every = 0
         \/ flush_log[n] = Len(urls_to_process)
         \/ pc = "end"

\* A periodic flush before the end of the list, after a skipped thread,
\* with fewer completed entries than the batch size.
C19_Witness ==
  /\ script \in ExtractScripts
  /\ pc = "save_write" /\ i + 1 < Len(urls_to_process)
  /\ save_every = 2
  /\ SkippedUrls # {}
  /\ Cardinality(completed) = 1

\* list[1] < list[2] < ... in the order of Python's str
Ascending(list) ==
  \A a, b \in DOMAIN list : a < b => StrLess(list[a], list[b])

\* C20: the list get_all_thread_urls returned, and the list written to
\* thread_urls.json, is ascending and holds each URL of the accumulated set
\* exactly once.
C20_SortedOutput ==
  script \in ListingScripts =>
    /\ pc \in {"save", "save_write", "close"} =>
         /\ Ascending(returned)
         /\ Range(returned) = seen_urls
         /\ Len(returned) = Cardinality(seen_urls)
    /\ pc = "close" =>
         /\ urls_file.state = "ok"
         /\ Ascending(urls_file.data)
         /\ Range(urls_file.data) = seen_urls
         /\ Len(urls_file.data) = Cardinality(seen_urls)

\* C21: inside the discovery loop seen_urls is the union of the resolved
\* links of the pages already collected, so it loses nothing from one
\* iteration to the next; when advance is invoked on page k the links of
\* pages 1..k are in it; the returned set is the union of the resolved links
\* of pages 1..K+1.
C21_ExhaustiveAccumulation ==
  (script \in DiscoverScripts /\ exit = "running") =>
    /\ pc \in {"collect", "links"} =>
         /\ cur = page_count
         /\ seen_urls = VisitedUrls(site, cur - 1)
    /\ pc = "load_wait" =>
         /\ cur = page_count + 1
         /\ seen_urls = VisitedUrls(site, page_count)
    /\ pc = "links" =>
         current_page_urls \cup {FullUrl(href) : href \in links}
           = PageUrls(site, cur)
    /\ pc = "advance" =>
         /\ cur = page_count
         /\ seen_urls = VisitedUrls(site, cur)
    /\ thread_urls.set =>
         /\ thread_urls.urls = VisitedUrls(site, ResolverK(site) + 1)
         /\ cur = ResolverK(site) + 1

\* Discovery returned after a transition, and each of the first two pages
\* had a link the other had not.
C21_Witness ==
  /\ script \in DiscoverScripts /\ exit = "running"
  /\ thread_urls.set /\ transitions >= 1
  /\ PageUrls(site, 1) \ PageUrls(site, 2) # {}
  /\ PageUrls(site, 2) \ PageUrls(site, 1) # {}
  /\ thread_urls.urls = PageUrls(site, 1) \cup PageUrls(site, 2)

\* What follows the first delimiter of a text that has one.
HasBar(text) == \E k \in DOMAIN text : text[k] = "|"
AfterFirstBar(text) ==
  LET k == CHOOSE b \in DOMAIN text :
             text[b] = "|" /\ \A c \in 1..(b - 1) : text[c] # "|"
  IN SubSeq(text, k + 1, Len(text))

\* C22: the title of the record of a rendered thread is the sentinel when
\* the document title cannot be read, the whole document title when it has
\* no delimiter, and otherwise what follows the first delimiter (blanks at
\* its ends aside), also when the subject holds the delimiter.
C22_TitleExtraction ==
  (script = "03" /\ met.kind = "content") =>
    LET title == scraped_data[urls_to_process[i + 1]].title
    IN /\ ~met.title.present => title = TitleNotFound
       /\ (met.title.present /\ ~HasBar(met.title.text)) =>
            title = met.title.text
       /\ (met.title.present /\ HasBar(met.title.text)) =>
            Strip(title) = Strip(AfterFirstBar(met.title.text))

\* The thread a link href or a URL points to: its topic number.
ThreadOf(str) ==
  LET k == CHOOSE p \in DOMAIN str : str[p] = TOPIC_PATH
  IN SubSeq(str, k + 1, Len(str))

\* An absolute URL in canonical form: scheme and host once, then the path.
Canonical(url) == Len(url) >= 3 /\ url[1] = HOST /\ url[2] = TOPIC_PATH

\* C23: every URL discovery holds is absolute, scheme-qualified and in
\* canonical form whatever the form of the href it came from, and two
\* links to the same thread give one element.
C23_CanonicalUrls ==
  script \in DiscoverScripts =>
    /\ \A url \in seen_urls \cup current_page_urls : Canonical(url)
    /\ \A a, b \in seen_urls : ThreadOf(a) = ThreadOf(b) => a = b

\* A complete ThreadRecord: url, title and messages, each message with
\* author, timestamp and body.
FullRecord(rec) ==
  /\ DOMAIN rec = {"url", "title", "messages"}
  /\ \A k \in DOMAIN rec.messages :
       DOMAIN rec.messages[k] = {"author", "timestamp", "body"}

\* The entries of the output artifact that the file did not hold when the
\* run started.
AddedPairs == FilePairs(data_file) \ FilePairs(data_file0)

\* C24: at every point every entry of scraped_data.json that this run
\* added is a complete ThreadRecord under the key equal to its url field,
\* the record scrape_thread_page returned for that URL; no entry is there
\* for a thread that was skipped.
C24_OnlyFullRecords ==
  script \in ExtractScripts =>
    \A p \in AddedPairs :
      /\ FullRecord(p[2])
      /\ p[2].url = p[1]
      /\ p \in completed
      /\ p[1] \notin SkippedUrls

\* After a thread was skipped the file holds a record this run added,
\* whose message lacks a field on the page.
C24_Witness ==
  /\ script \in ExtractScripts
  /\ data_file.state = "ok"
  /\ SkippedUrls # {}
  /\ \E p \in AddedPairs :
       /\ Len(p[2].messages) >= 1
       /\ p[2].messages[1].timestamp = NA

\* The URLs that remain to be processed when the run starts, in the order
\* of the input list.
RemainingAtStart == WorkList(urls_file.data, LoadStore(data_file0))

\* C25: the thread navigations of an extraction run are, in order, the
\* first URLs of the remaining list, which keeps the order of the input
\* list; no URL is navigated twice, so there are at most as many
\* navigations as remaining URLs, and a run that ends without an error has
\* navigated each of them once.
C25_OrderAndSingleAttempt ==
  (script \in ExtractScripts /\ goto_log # <<>>) =>
    /\ Len(goto_log) <= Len(RemainingAtStart)
    /\ goto_log = SubSeq(RemainingAtStart, 1, Len(goto_log))
    /\ \A j, k \in DOMAIN goto_log : goto_log[j] = goto_log[k] => j = k
    /\ \A j, k \in DOMAIN goto_log :
         j < k =>
           \E a, b \in DOMAIN urls_file.data :
             /\ a < b
             /\ urls_file.data[a] = goto_log[j]
             /\ urls_file.data[b] = goto_log[k]
    /\ (pc = "end" /\ exit = "returned" /\ exc = "none") =>
         goto_log = RemainingAtStart

\* A run over two or more remaining URLs has ended; a thread that failed
\* was followed by the next URL of the list, and the store of the earlier
\* run held a URL of the input list.
C25_Witness ==
  /\ script \in ExtractScripts
  /\ pc = "end" /\ exit = "returned" /\ exc = "none"
  /\ Len(goto_log) >= 2
  /\ goto_log[1] \in SkippedUrls
  /\ Len(RemainingAtStart) < Len(urls_file.data)

\* C26: an extraction run that finds every URL of the input list among the
\* keys of the store it loads navigates nowhere, launches no browser, and
\* never opens scraped_data.json for writing: the file is what it was
\* before the run.
C26_NothingToDo ==
  (/\ script \in ExtractScripts
   /\ urls_file0.state = "ok" /\ data_file0.state # "torn"
   /\ InputUrls \subseteq LoadedKeys) =>
    /\ goto_log = <<>>
    /\ browser = "none"
    /\ flush_log = <<>>
    /\ data_file = data_file0
    /\ pc \in {"start", "end"}

\* The run has returned with the session file there, over an input list
\* of several URLs that are all keys of the store on disk.
C26_Witness ==
  /\ script \in ExtractScripts
  /\ Exists(auth_file)
  /\ urls_file0.state = "ok" /\ data_file0.state = "ok"
  /\ Cardinality(InputUrls) >= 2
  /\ InputUrls \subseteq LoadedKeys
  /\ pc = "end" /\ exit = "returned"
  /\ scraped_data = data_file0.data

\* The number of rounds at the end of a history that added no URL.
RECURSIVE TrailingIdle(_)
TrailingIdle(history) ==
  IF history = <<>> \/ history[Len(history)] THEN 0
  ELSE 1 + TrailingIdle(SubSeq(history, 1, Len(history) - 1))

\* C27: in the scroll loop of 002 the patience counter is within
\* 0..SCROLL_PATIENCE and is the number of rounds since the last round that
\* added a URL (0 after a round that added one, one more after each round
\* that added none); the loop has ended if and only if the last
\* SCROLL_PATIENCE rounds added no URL, and no round follows
\* SCROLL_PATIENCE consecutive rounds that added none.
C27_PatienceCounter ==
  script \in ScrollScripts =>
    /\ patience_counter \in 0..SCROLL_PATIENCE
    /\ patience_counter = TrailingIdle(rounds)
    /\ pc = "returned" => TrailingIdle(rounds) = SCROLL_PATIENCE
    /\ pc = "scroll" => rounds # <<>>
    /\ \A k \in DOMAIN rounds :
         TrailingIdle(SubSeq(rounds, 1, k)) >= SCROLL_PATIENCE
           => k = Len(rounds)
    /\ (pc = "round" /\ TrailingIdle(rounds) = SCROLL_PATIENCE) =>
         ~ENABLED SRound

\* The loop has ended after a round that added a URL came after rounds
\* that added none.
C27_Witness ==
  /\ script \in ScrollScripts
  /\ pc = "returned"
  /\ \E j, k \in DOMAIN rounds : j < k /\ ~rounds[j] /\ rounds[k]
  /\ Cardinality(seen_urls) >= 2

====
